---- MODULE Spec2Model ----
(***************************************************************************)
(* Model of duplicatefile.py: the DetectDuplicate class (catalog walk,     *)
(* size partition, selective hashing, hash partition, summary) and the     *)
(* main() driver that validates the environment and the arguments, builds  *)
(* the detector and maps outcomes to exit codes.                           *)
(*                                                                         *)
(* The directory tree and the digest function are the environment: they    *)
(* are fixed in the initial state and never change during a behaviour.     *)
(* A path is the index of its entry in the tree.                           *)
(***************************************************************************)
EXTENDS Integers, Sequences, FiniteSets, TLC

\* ------------------------------------------------------------------------
\* Bounds of the model
\* ------------------------------------------------------------------------
\* largest number of non-directory entries under the scanned root (Spec)
MaxFiles == 4
\* largest number of entries that are not plain readable regular files
MaxIrregular == 1
\* largest number of entries under the root in the runs of main (SpecMain)
MainMaxFiles == 2

\* ------------------------------------------------------------------------
\* Environment: file contents, directory entries, digest function, platform
\* ------------------------------------------------------------------------
None == "None"

\* File contents; X and Y have the same length, Z is longer.
Contents == {"X", "Y", "Z"}

ContentSize(c) == IF c = "Z" THEN 2 ELSE 1

\* Kinds of non-directory entries that os.walk lists in `filenames`:
\*   regular    - readable regular file
\*   dsstore    - regular file whose basename is ".DS_Store"
\*   dangling   - entry whose os.stat fails (broken link, removed entry)
\*   unreadable - regular file with readable metadata that open() rejects
\*   special    - socket: not a regular file, st_size 0, open() fails
Kinds == {"regular", "dsstore", "dangling", "unreadable", "special"}

Entries ==
    {[kind |-> "regular", content |-> c] : c \in Contents}
    \cup {[kind |-> "unreadable", content |-> c] : c \in {"X", "Z"}}
    \cup {[kind |-> "dsstore", content |-> "X"],
          [kind |-> "dangling", content |-> None],
          [kind |-> "special", content |-> None]}

Irregular(t) == Cardinality({i \in DOMAIN t : t[i].kind # "regular"})

Trees(n) ==
    UNION {{t \in [1..k -> Entries] : Irregular(t) <= MaxIrregular} : k \in 0..n}

IsRegularFile(e) == e.kind \in {"regular", "dsstore", "unreadable"}

\* os.stat(path) succeeds
CanStat(e) == e.kind # "dangling"

\* open(path, 'rb') and read succeed
CanRead(e) == e.kind \in {"regular", "dsstore"}

\* os.stat(path).st_size
StSize(e) == IF e.kind = "special" THEN 0 ELSE ContentSize(e.content)

Basename(t, p) == IF t[p].kind = "dsstore" THEN ".DS_Store" ELSE "f"

\* Digest functions xxh64 may realise on the three contents, up to a renaming
\* of the digests: every partition of Contents into collision classes.
DigestMaps ==
    {m \in [Contents -> {"d1", "d2", "d3"}] :
        /\ m["X"] = "d1"
        /\ m["Y"] \in {"d1", "d2"}
        /\ m["Z"] \in {"d1", "d2"} \cup (IF m["Y"] = "d2" THEN {"d3"} ELSE {})}

Platforms == {"posix", "nt"}

\* attributes of the os module that the exit values look up
os(p) ==
    IF p = "posix"
    THEN [EX_OK |-> 0, EX_USAGE |-> 64, EX_CONFIG |-> 78, EX_CANTCREAT |-> 73]
    ELSE [name |-> "nt"]

getattr(obj, name, default) ==
    IF name \in DOMAIN obj THEN obj[name] ELSE default

\* ------------------------------------------------------------------------
\* Parameters of the program
\* ------------------------------------------------------------------------
EX_OK(p) == getattr(os(p), "EX_OK", 0)

EX_USAGE(p) == getattr(os(p), "EX_USAGE", 64)

EX_CONFIG(p) == getattr(os(p), "EX_USAGE", 78)

EX_CANTCREAT(p) == getattr(os(p), "EX_USAGE", 73)

\* exit status of ArgumentParser.error (required option missing)
ARGPARSE_ERROR == 2

EXCLUDED == {".DS_Store"}

\* ------------------------------------------------------------------------
\* State
\* ------------------------------------------------------------------------
VARIABLES
    tree,                 \* the non-directory entries under the root
    digest,               \* the digest xxh64 gives each content
    platform,             \* os.name family
    IMPORT_DONE,          \* module-level import status
    version_ok,           \* sys.version_info[:3] >= CHK_PYT_MIN
    path_is_dir,          \* os.path.isdir(args.path)
    pc,                   \* control position
    exc,                  \* where the pending exception was raised
    construction,         \* "first" or "second" DetectDuplicate(path)
    self_files,           \* DetectDuplicate.__files
    file_redundant_size,  \* the hashed candidates of __find_duplicate
    self_hash,            \* DetectDuplicate.__hash
    self_summary,         \* DetectDuplicate.__summary
    hash_calls,           \* get_hash invocations per path, this construction
    walks,                \* os.walk traversals started in this behaviour
    prev_duplicate,       \* <<membership>> of the first construction
    args,                 \* parsed Namespace
    exitcode,             \* <<value returned by main>>
    dump_written          \* the JSON dump file was written

vars == <<tree, digest, platform, IMPORT_DONE, version_ok, path_is_dir, pc, exc,
          construction, self_files, file_redundant_size, self_hash,
          self_summary, hash_calls, walks, prev_duplicate, args, exitcode,
          dump_written>>

envVars == <<tree, digest, platform, IMPORT_DONE, version_ok, path_is_dir>>

mainVars == <<args, exitcode, dump_written>>

detectVars == <<self_files, file_redundant_size, self_hash, self_summary,
                hash_calls>>

\* ------------------------------------------------------------------------
\* Helpers for Python sequences
\* ------------------------------------------------------------------------
Range(s) == {s[i] : i \in DOMAIN s}

Map(s, Op(_)) == [i \in DOMAIN s |-> Op(s[i])]

\* the distinct elements of s in order of first occurrence
FirstOccurrences(s) ==
    LET idx == SelectSeq([i \in DOMAIN s |-> i],
                         LAMBDA i : \A j \in 1..(i - 1) : s[j] # s[i])
    IN  [k \in DOMAIN idx |-> s[idx[k]]]

\* collections.Counter(keys): key -> number of occurrences
Counter(keys) ==
    [k \in Range(keys) |-> Cardinality({i \in DOMAIN keys : keys[i] = k})]

\* ------------------------------------------------------------------------
\* MyFile
\* ------------------------------------------------------------------------
\* MyFile.get_size: a record with the path and the size, hash unset
get_size(t, p) == [path |-> p, size |-> StSize(t[p]), hash |-> None]

\* get_hash that drops the result of _replace and hands back the record as is
get_hash_unset(t, d, f) == f

\* MyFile.get_hash: a new record with the digest of the file's content
get_hash(t, d, f) == [f EXCEPT !.hash = d[t[f.path].content]]

\* ------------------------------------------------------------------------
\* DetectDuplicate
\* ------------------------------------------------------------------------
\* orders in which os.walk may yield the n entries of the tree: the tree lists
\* its entries in the order of the first walk; a later walk over the unchanged
\* tree may yield them in that order, reversed or rotated
WalkOrders(n, which) ==
    IF which = "first"
    THEN {[i \in 1..n |-> i]}
    ELSE {[i \in 1..n |-> i], [i \in 1..n |-> n + 1 - i],
          [i \in 1..n |-> (i % n) + 1]}

\* the filter of __get_files on a filename
accepted(basename) == basename \notin EXCLUDED

\* the paths __get_files calls get_size on, in walk order
accepted_paths(t, o) ==
    SelectSeq([i \in DOMAIN t |-> o[i]], LAMBDA p : accepted(Basename(t, p)))

\* a size test that lets files of a unique size through
redundant_size_any(count) == count >= 1

\* the test of __find_duplicate on the number of files of a size
redundant_size(count) == count >= 2

\* the records __find_duplicate calls get_hash on, in list order
size_candidates(files) ==
    LET count_size == Counter(Map(files, LAMBDA f : f.size))
    IN  SelectSeq(files, LAMBDA f : redundant_size(count_size[f.size]))

\* a hash test that is off by one
duplicate_hash_above(count) == count > 2

\* the test of __find_duplicate on the number of candidates of a hash
duplicate_hash(count) == count >= 2

\* grouping that collects only the run of adjacent records with cur_hash
group_members_adjacent(frs, cur_hash) ==
    LET first == CHOOSE i \in DOMAIN frs :
                     /\ frs[i].hash = cur_hash
                     /\ \A j \in 1..(i - 1) : frs[j].hash # cur_hash
        stops == {i \in DOMAIN frs : i > first /\ frs[i].hash # cur_hash}
        stop  == IF stops = {} THEN Len(frs) + 1
                 ELSE CHOOSE i \in stops : \A j \in stops : i <= j
    IN  SubSeq(frs, first, stop - 1)

\* grouping that pushes every match on the front of the group
group_members_reversed(frs, cur_hash) ==
    LET g == SelectSeq(frs, LAMBDA f : f.hash = cur_hash)
    IN  [i \in DOMAIN g |-> g[Len(g) + 1 - i]]

\* the members of the group of cur_hash
group_members(frs, cur_hash) == SelectSeq(frs, LAMBDA f : f.hash = cur_hash)

\* the groups __find_duplicate builds from the hashed candidates
hash_groups(frs) ==
    LET hashes     == Map(frs, LAMBDA f : f.hash)
        count_hash == Counter(hashes)
        keys       == SelectSeq(FirstOccurrences(hashes),
                                LAMBDA h : duplicate_hash(count_hash[h]))
    IN  [k \in DOMAIN keys |-> group_members(frs, keys[k])]

\* the "duplicate" dict of __gen_details: a later group with the same key
\* would replace an earlier one
duplicate_dict(groups) ==
    [h \in {groups[i][1].hash : i \in DOMAIN groups} |->
        LET last == CHOOSE i \in DOMAIN groups :
                        /\ groups[i][1].hash = h
                        /\ \A j \in DOMAIN groups :
                              groups[j][1].hash = h => j <= i
        IN  Map(groups[last], LAMBDA f : f.path)]

gen_details(files, groups) ==
    [path      |-> "root",
     duplicate |-> duplicate_dict(groups),
     files     |-> Map(files, LAMBDA f : f.path)]

\* the block __str__ appends for one group: the line "- Same files (hash):"
\* and one line " -> 'path'" per member, in the order of the group
str_block(cur_hash) ==
    <<[line |-> "- Same files", hash |-> cur_hash[1].hash, path |-> 0]>>
    \o [i \in DOMAIN cur_hash |->
            [line |-> " -> ", hash |-> "", path |-> cur_hash[i].path]]

\* DetectDuplicate.__str__: the blocks of the groups of __hash, in order
RECURSIVE str_from(_, _)
str_from(groups, k) ==
    IF k > Len(groups) THEN <<>>
    ELSE str_block(groups[k]) \o str_from(groups, k + 1)

to_str(groups) == str_from(groups, 1)

\* DetectDuplicate.num_of_files
num_of_files == Len(self_files)

EmptySummary == [path |-> "", duplicate |-> <<>>, files |-> <<>>]

\* hash -> set of member paths
Membership(dup) == [h \in DOMAIN dup |-> Range(dup[h])]

\* __get_files: walk the tree, stat every accepted filename.  An os.stat
\* failure raises out of the comprehension and out of __init__.
GetFiles ==
    /\ pc = "construct"
    /\ \E o \in WalkOrders(Len(tree), construction) :
        LET names == accepted_paths(tree, o) IN
        IF \E i \in DOMAIN names : ~CanStat(tree[names[i]])
        THEN /\ pc' = "raised"
             /\ exc' = "get_size"
             /\ UNCHANGED self_files
        ELSE /\ pc' = "walked"
             /\ self_files' = [i \in DOMAIN names |-> get_size(tree, names[i])]
             /\ UNCHANGED exc
    /\ walks' = walks + 1
    /\ UNCHANGED <<envVars, mainVars, construction, file_redundant_size,
                   self_hash, self_summary, hash_calls, prev_duplicate>>

\* __find_duplicate: hash the size candidates in list order, then group the
\* hashed records by hash.  A failing open() raises out of the comprehension
\* at the first unreadable candidate.
FindDuplicate ==
    /\ pc = "walked"
    /\ LET cands == size_candidates(self_files)
           bad   == {i \in DOMAIN cands : ~CanRead(tree[cands[i].path])}
       IN
       IF bad # {}
       THEN LET k == CHOOSE i \in bad : \A j \in bad : i <= j IN
            /\ hash_calls' =
                  [p \in DOMAIN hash_calls |->
                      hash_calls[p]
                      + Cardinality({i \in 1..k : cands[i].path = p})]
            /\ pc' = "raised"
            /\ exc' = "get_hash"
            /\ UNCHANGED <<file_redundant_size, self_hash>>
       ELSE LET frs == Map(cands, LAMBDA f : get_hash(tree, digest, f)) IN
            /\ hash_calls' =
                  [p \in DOMAIN hash_calls |->
                      hash_calls[p]
                      + Cardinality({i \in DOMAIN cands : cands[i].path = p})]
            /\ file_redundant_size' = frs
            /\ self_hash' = hash_groups(frs)
            /\ pc' = "found"
            /\ UNCHANGED exc
    /\ UNCHANGED <<envVars, mainVars, construction, self_files, self_summary,
                   walks, prev_duplicate>>

\* __gen_details, the last step of __init__
GenDetails ==
    /\ pc = "found"
    /\ self_summary' = gen_details(self_files, self_hash)
    /\ pc' = "constructed"
    /\ UNCHANGED <<envVars, mainVars, exc, construction, self_files,
                   file_redundant_size, self_hash, hash_calls, walks,
                   prev_duplicate>>

\* DetectDuplicate(path) is called a second time on the same tree
Reconstruct ==
    /\ pc = "constructed"
    /\ construction = "first"
    /\ construction' = "second"
    /\ prev_duplicate' = <<Membership(self_summary.duplicate)>>
    /\ self_files' = <<>>
    /\ file_redundant_size' = <<>>
    /\ self_hash' = <<>>
    /\ self_summary' = EmptySummary
    /\ hash_calls' = [p \in DOMAIN tree |-> 0]
    /\ pc' = "construct"
    /\ UNCHANGED <<envVars, mainVars, exc, walks>>

\* ------------------------------------------------------------------------
\* main
\* ------------------------------------------------------------------------
\* check_python
check_python(ok) == ok

\* check_import
check_import(done) == done

\* check_arg that accepts any path
check_arg_always(isdir) == TRUE

\* check_arg
check_arg(isdir) == isdir

\* parser.parse_args(): the required -p option missing ends the process
ParseArgs ==
    /\ pc = "main"
    /\ \E given \in BOOLEAN, dump \in BOOLEAN :
        IF given
        THEN /\ args' = [dump |-> dump]
             /\ pc' = "parsed"
             /\ UNCHANGED exitcode
        ELSE /\ pc' = "exited"
             /\ exitcode' = <<ARGPARSE_ERROR>>
             /\ UNCHANGED args
    /\ UNCHANGED <<envVars, detectVars, exc, construction, walks,
                   prev_duplicate, dump_written>>

\* if not check_python() or not check_import(): return EX_CONFIG
CheckEnv ==
    /\ pc = "parsed"
    /\ IF ~check_python(version_ok) \/ ~check_import(IMPORT_DONE)
       THEN /\ pc' = "returned"
            /\ exitcode' = <<EX_CONFIG(platform)>>
       ELSE /\ pc' = "env_ok"
            /\ UNCHANGED exitcode
    /\ UNCHANGED <<envVars, detectVars, exc, construction, walks,
                   prev_duplicate, args, dump_written>>

\* if not check_arg(args): return EX_USAGE
CheckArg ==
    /\ pc = "env_ok"
    /\ IF ~check_arg(path_is_dir)
       THEN /\ pc' = "returned"
            /\ exitcode' = <<EX_USAGE(platform)>>
       ELSE /\ pc' = "construct"
            /\ UNCHANGED exitcode
    /\ UNCHANGED <<envVars, detectVars, exc, construction, walks,
                   prev_duplicate, args, dump_written>>

\* the rest of main once the detector is built: log the result, dump it when
\* asked to, return
Report ==
    /\ pc = "constructed"
    /\ \E writable \in BOOLEAN :
        IF args.dump /\ ~writable
        THEN /\ exitcode' = <<EX_CANTCREAT(platform)>>
             /\ UNCHANGED dump_written
        ELSE /\ exitcode' = <<EX_OK(platform)>>
             /\ dump_written' = args.dump
    /\ pc' = "returned"
    /\ UNCHANGED <<envVars, detectVars, exc, construction, walks,
                   prev_duplicate, args>>

\* ------------------------------------------------------------------------
\* Specifications
\* ------------------------------------------------------------------------
InitDetect ==
    /\ self_files = <<>>
    /\ file_redundant_size = <<>>
    /\ self_hash = <<>>
    /\ self_summary = EmptySummary
    /\ hash_calls = [p \in DOMAIN tree |-> 0]
    /\ walks = 0
    /\ prev_duplicate = <<>>
    /\ construction = "first"
    /\ exc = None
    /\ exitcode = <<>>
    /\ dump_written = FALSE

\* DetectDuplicate(path) called on an existing directory
Init ==
    /\ tree \in Trees(MaxFiles)
    /\ digest \in DigestMaps
    /\ platform = "posix"
    /\ IMPORT_DONE = TRUE
    /\ version_ok = TRUE
    /\ path_is_dir = TRUE
    /\ args = [dump |-> FALSE]
    /\ pc = "construct"
    /\ InitDetect

Next == GetFiles \/ FindDuplicate \/ GenDetails \/ Reconstruct

Spec == Init /\ [][Next]_vars

\* main() entered after the module was imported
InitMain ==
    /\ platform \in Platforms
    /\ IMPORT_DONE \in BOOLEAN
    /\ version_ok \in BOOLEAN
    /\ path_is_dir \in BOOLEAN
    /\ tree \in (IF path_is_dir THEN Trees(MainMaxFiles) ELSE {<<>>})
    /\ digest \in DigestMaps
    /\ args = [dump |-> FALSE]
    /\ pc = "main"
    /\ InitDetect

NextMain ==
    ParseArgs \/ CheckEnv \/ CheckArg \/ GetFiles \/ FindDuplicate
    \/ GenDetails \/ Report

SpecMain == InitMain /\ [][NextMain]_vars

\* ------------------------------------------------------------------------
\* Properties
\* ------------------------------------------------------------------------
FilePaths == {self_files[i].path : i \in DOMAIN self_files}

InGroup(g, p) == \E i \in DOMAIN g : g[i].path = p

GroupsWith(p) == {k \in DOMAIN self_hash : InGroup(self_hash[k], p)}

GroupsWithBoth(a, b) == GroupsWith(a) \cap GroupsWith(b)

\* pairs of distinct discovered files of equal size
EqualSizePairs ==
    {ab \in FilePaths \X FilePaths :
        ab[1] # ab[2] /\ StSize(tree[ab[1]]) = StSize(tree[ab[2]])}

SameContent(a, b) == tree[a].content = tree[b].content

SameDigest(a, b) == digest[tree[a].content] = digest[tree[b].content]

\* number of discovered files with the size of file f
SizeCount(f) == Cardinality({i \in DOMAIN self_files : self_files[i].size = f.size})

\* C1 (as stated): once the detector is constructed, two distinct files of
\* equal size are together in exactly one duplicate group when their content
\* is equal and in no common group when their content differs, whatever
\* digests the hash function gives the contents.
C1_GroupedIffSameContent ==
    pc = "constructed" =>
        \A ab \in EqualSizePairs :
            IF SameContent(ab[1], ab[2])
            THEN Cardinality(GroupsWithBoth(ab[1], ab[2])) = 1
            ELSE GroupsWithBoth(ab[1], ab[2]) = {}

\* C1 (amended): once the detector is constructed, two distinct files of
\* equal size and equal content are together in exactly one duplicate group;
\* two of equal size and different content share no group unless the hash
\* function gives both contents the same digest, and then they are together
\* in exactly one group.
C1_GroupedIffSameDigest ==
    pc = "constructed" =>
        \A ab \in EqualSizePairs :
            /\ SameContent(ab[1], ab[2]) =>
                  Cardinality(GroupsWithBoth(ab[1], ab[2])) = 1
            /\ ~SameContent(ab[1], ab[2]) =>
                  IF SameDigest(ab[1], ab[2])
                  THEN Cardinality(GroupsWithBoth(ab[1], ab[2])) = 1
                  ELSE GroupsWithBoth(ab[1], ab[2]) = {}

\* a constructed detector over a tree with two equal files and a third of
\* the same size whose content and digest differ
C1_Witness ==
    /\ pc = "constructed"
    /\ \E ab \in EqualSizePairs :
          SameContent(ab[1], ab[2]) /\ GroupsWithBoth(ab[1], ab[2]) # {}
    /\ \E ab \in EqualSizePairs :
          ~SameContent(ab[1], ab[2]) /\ ~SameDigest(ab[1], ab[2])

\* C2: a discovered file whose size occurs exactly once among the discovered
\* files is never passed to get_hash and is a member of no duplicate group.
C2_UniqueSizeNeverHashed ==
    \A i \in DOMAIN self_files :
        SizeCount(self_files[i]) = 1 =>
            /\ hash_calls[self_files[i].path] = 0
            /\ GroupsWith(self_files[i].path) = {}

\* a constructed detector that hashed some files and has a file of unique size
C2_Witness ==
    /\ pc = "constructed"
    /\ \E i \in DOMAIN self_files : SizeCount(self_files[i]) = 1
    /\ \E p \in FilePaths : hash_calls[p] = 1
    /\ self_hash # <<>>

\* get_hash ran on a candidate that cannot be opened or read
HashFailedOn(p) == hash_calls[p] > 0 /\ ~CanRead(tree[p])

\* C3: when get_hash runs on a size candidate that cannot be opened or read,
\* the scan is not aborted: the file is left out of every group, every
\* readable candidate is still hashed and the groups among them are produced.
C3_UnreadableCandidateSkipped ==
    \A p \in DOMAIN tree :
        HashFailedOn(p) =>
            /\ pc \in {"found", "constructed"}
            /\ GroupsWith(p) = {}
            /\ \A i \in DOMAIN self_files :
                  (SizeCount(self_files[i]) >= 2
                   /\ CanRead(tree[self_files[i].path]))
                      => hash_calls[self_files[i].path] = 1

\* the paths whose filename passes the exclusion filter
AcceptedPaths == {p \in DOMAIN tree : accepted(Basename(tree, p))}

\* C4: when the size of one accepted entry cannot be read during the walk,
\* that entry alone is skipped: the walk completes, every other accepted
\* entry has a record, and the construction is not aborted.
C4_UnstatableEntrySkipped ==
    (pc # "construct" /\ \E p \in AcceptedPaths : ~CanStat(tree[p])) =>
        /\ exc # "get_size"
        /\ FilePaths = {p \in AcceptedPaths : CanStat(tree[p])}

\* C5: in a constructed detector every duplicate group has at least two
\* members, the members of a group have the same size and the same hash,
\* the hashes of the groups are pairwise different and no path is in two
\* groups; the "duplicate" mapping lists exactly these groups.
C5_GroupInvariant ==
    pc = "constructed" =>
        /\ \A k \in DOMAIN self_hash :
              /\ Len(self_hash[k]) >= 2
              /\ \A i, j \in DOMAIN self_hash[k] :
                    /\ self_hash[k][i].size = self_hash[k][j].size
                    /\ self_hash[k][i].hash = self_hash[k][j].hash
        /\ \A k, l \in DOMAIN self_hash :
              k # l => self_hash[k][1].hash # self_hash[l][1].hash
        /\ \A p \in FilePaths : Cardinality(GroupsWith(p)) <= 1
        /\ \A k \in DOMAIN self_hash :
              /\ self_hash[k][1].hash \in DOMAIN self_summary.duplicate
              /\ self_summary.duplicate[self_hash[k][1].hash]
                    = Map(self_hash[k], LAMBDA f : f.path)
        /\ Cardinality(DOMAIN self_summary.duplicate) = Len(self_hash)

\* the paths of the regular files under the root that pass the filter
RegularAccepted == {p \in AcceptedPaths : IsRegularFile(tree[p])}

\* C6: the file list of a constructed detector has exactly one entry for
\* every regular file under the root whose filename is not excluded and no
\* other entry; num_of_files is the length of that list; every path of a
\* duplicate group is in the file list.
C6_FilesAreTheRegularFiles ==
    pc = "constructed" =>
        /\ Range(self_summary.files) = RegularAccepted
        /\ Len(self_summary.files) = Cardinality(RegularAccepted)
        /\ num_of_files = Len(self_summary.files)
        /\ \A h \in DOMAIN self_summary.duplicate :
              Range(self_summary.duplicate[h]) \subseteq Range(self_summary.files)

\* main returned with every check passed, the dump asked for and not written
DumpFailed ==
    /\ pc = "returned"
    /\ version_ok /\ IMPORT_DONE /\ path_is_dir
    /\ args.dump /\ ~dump_written

\* C7: main maps each outcome to its own exit code: 0 on success, the usage
\* code when the path is missing or not a directory, the configuration code
\* when the version or import check fails, the cannot-create code when the
\* dump cannot be written; the three error codes are not 0 and the
\* cannot-create code differs from the usage and configuration codes.
C7_ExitCodePerOutcome ==
    /\ pc = "exited" => exitcode # <<0>>
    /\ pc = "returned" =>
          /\ exitcode =
                IF ~version_ok \/ ~IMPORT_DONE THEN <<EX_CONFIG(platform)>>
                ELSE IF ~path_is_dir THEN <<EX_USAGE(platform)>>
                ELSE IF args.dump /\ ~dump_written
                     THEN <<EX_CANTCREAT(platform)>>
                ELSE <<0>>
          /\ exitcode # <<0>> <=>
                (~version_ok \/ ~IMPORT_DONE \/ ~path_is_dir \/ DumpFailed)
          /\ DumpFailed =>
                /\ exitcode # <<EX_USAGE(platform)>>
                /\ exitcode # <<EX_CONFIG(platform)>>

\* some file was hashed in this behaviour
SomeHashCall == \E p \in DOMAIN hash_calls : hash_calls[p] > 0

\* C8: a second construction over the unchanged tree yields the same
\* duplicate-group membership (hash -> set of paths) as the first, whatever
\* the order in which the second walk lists the files.
C8_SameMembershipTwice ==
    (construction = "second" /\ pc = "constructed") =>
        prev_duplicate = <<Membership(self_summary.duplicate)>>

\* a second construction that walked the files in another order and found
\* a duplicate group
C8_Witness ==
    /\ construction = "second"
    /\ pc = "constructed"
    /\ self_files # <<>>
    /\ self_files[1].path # 1
    /\ DOMAIN self_summary.duplicate # {}

\* C9 (as stated): the detector is constructed only after check_python,
\* check_import and check_arg succeeded; when the path is not an existing
\* directory main returns the usage code and no walk, no hashing and no
\* dump write happens.
C9_UsageCodeWhenNotDir ==
    /\ walks > 0 => (version_ok /\ IMPORT_DONE /\ path_is_dir)
    /\ ~path_is_dir => (walks = 0 /\ ~SomeHashCall /\ ~dump_written)
    /\ (pc = "returned" /\ ~path_is_dir) => exitcode = <<EX_USAGE(platform)>>

\* C9 (amended): the detector is constructed only after check_python,
\* check_import and check_arg succeeded; when the path is not an existing
\* directory no walk, no hashing and no dump write happens, and main returns
\* the usage code provided check_python and check_import succeeded (main
\* returns the configuration code before it looks at the path otherwise).
C9_UsageCodeWhenNotDirAfterEnvChecks ==
    /\ walks > 0 => (version_ok /\ IMPORT_DONE /\ path_is_dir)
    /\ ~path_is_dir => (walks = 0 /\ ~SomeHashCall /\ ~dump_written)
    /\ (pc = "returned" /\ ~path_is_dir) =>
          exitcode = IF version_ok /\ IMPORT_DONE
                     THEN <<EX_USAGE(platform)>>
                     ELSE <<EX_CONFIG(platform)>>

\* main returned the usage code for a path that is not a directory, after
\* both environment checks passed
C9_Witness ==
    /\ pc = "returned"
    /\ ~path_is_dir
    /\ version_ok /\ IMPORT_DONE
    /\ exitcode = <<EX_USAGE(platform)>>
    /\ walks = 0

\* the list the walk of this construction can have produced
WalkResults ==
    {Map(accepted_paths(tree, o), LAMBDA p : get_size(tree, p)) :
        o \in WalkOrders(Len(tree), construction)}

\* C10: every size candidate is hashed exactly once per scan and no other
\* file is hashed; hashing leaves the file list as the walk produced it,
\* every record of it with its hash unset; the hash is set only on the new
\* records built for the candidates, which keep path and size.
C10_HashedOnceListUntouched ==
    /\ \A p \in DOMAIN hash_calls : hash_calls[p] <= 1
    /\ \A i \in DOMAIN self_files : self_files[i].hash = None
    /\ pc \in {"found", "constructed"} =>
          /\ self_files \in WalkResults
          /\ \A i \in DOMAIN self_files :
                hash_calls[self_files[i].path] =
                    IF SizeCount(self_files[i]) >= 2 THEN 1 ELSE 0
          /\ Len(file_redundant_size)
                = Cardinality({p \in FilePaths : hash_calls[p] = 1})
          /\ \A i \in DOMAIN file_redundant_size :
                LET h == file_redundant_size[i] IN
                /\ h.hash # None
                /\ [h EXCEPT !.hash = None] \in Range(self_files)
          /\ \A k \in DOMAIN self_hash :
                \A i \in DOMAIN self_hash[k] : self_hash[k][i].hash # None

\* a constructed detector that hashed candidates
C10_Witness ==
    /\ pc = "constructed"
    /\ file_redundant_size # <<>>
    /\ \E i \in DOMAIN self_files : SizeCount(self_files[i]) = 1

\* position of path p in a list of paths without repetition
PositionIn(paths, p) == CHOOSE i \in DOMAIN paths : paths[i] = p

\* the members of paths follow one another as they do in the file list
InFilesOrder(paths) ==
    \A i, j \in DOMAIN paths :
        i < j => PositionIn(self_summary.files, paths[i])
                    < PositionIn(self_summary.files, paths[j])

\* the paths the human-readable listing shows under the header of hash h
ListedUnder(lines, h) ==
    LET head == CHOOSE i \in DOMAIN lines :
                    lines[i].line = "- Same files" /\ lines[i].hash = h
        later == {i \in DOMAIN lines :
                    i > head /\ lines[i].line = "- Same files"}
        stop  == IF later = {} THEN Len(lines) + 1
                 ELSE CHOOSE i \in later : \A j \in later : i <= j
    IN  [i \in 1..(stop - head - 1) |-> lines[head + i].path]

\* C11: in a constructed detector the members of every duplicate group are
\* listed in their relative order in the file list: of two members, the one
\* that comes first in `files` comes first in the group, in the JSON
\* "duplicate" mapping and in the human-readable listing alike.
C11_MembersInFilesOrder ==
    pc = "constructed" =>
        /\ self_summary.files = Map(self_files, LAMBDA f : f.path)
        /\ \A h \in DOMAIN self_summary.duplicate :
              /\ InFilesOrder(self_summary.duplicate[h])
              /\ InFilesOrder(ListedUnder(to_str(self_hash), h))
              /\ ListedUnder(to_str(self_hash), h) = self_summary.duplicate[h]
        /\ {to_str(self_hash)[i].hash :
                i \in {j \in DOMAIN to_str(self_hash) :
                          to_str(self_hash)[j].line = "- Same files"}}
              = DOMAIN self_summary.duplicate

\* a second construction whose walk listed the files in another order, with
\* a group whose first member has the larger path index
C11_Witness ==
    /\ pc = "constructed"
    /\ construction = "second"
    /\ \E h \in DOMAIN self_summary.duplicate :
          /\ Len(self_summary.duplicate[h]) >= 2
          /\ self_summary.duplicate[h][1] > self_summary.duplicate[h][2]
          /\ ListedUnder(to_str(self_hash), h) = self_summary.duplicate[h]

====
